---- MODULE Spec2Model ----
\* A model of the original logic of the documentary scripts:
\*   - AdaptiveSubtitle.create_subtitle          (advanced_manim_doc.py)
\*   - ProceduralHyphae                          (advanced_manim_doc.py)
\*   - AdvancedParticleSystem                    (advanced_manim_doc.py)
\*   - FullDocumentary.construct                 (advanced_manim_doc.py)
\*   - EducationalScene                          (sciviz_core.py)
\*   - MycorrhizalDocumentary: speech files      (manim-documentary.py)
\*   - PerformanceOptimizer.get_particle_count   (advanced_manim_doc.py)
\*   - AudioCueSystem                            (advanced_manim_doc.py)
\*   - AdaptiveSubtitle.display_subtitles        (advanced_manim_doc.py)
\*   - NeuralNetwork, NetworkTemplate            (sciviz_templates.py)
\* Each part has its own variables, initial condition, actions and
\* specification; a part's actions leave the other parts' variables alone.
EXTENDS Integers, Sequences, FiniteSets, TLC

VARIABLES
    \* ---- AdaptiveSubtitle.create_subtitle
    text,           \* the text argument: a sequence of characters
    max_width,      \* the max_width argument, in tenths
    lines,          \* the local list `lines` once the wrap loop has run
    spc,            \* "call" before create_subtitle has run, "done" after
    \* ---- ProceduralHyphae
    npRandom,       \* state of the global numpy generator (np.random)
    pyRandom,       \* state of the global generator of module random
    hargs,          \* arguments of the construction: start, depth, seed
    segments,       \* self.segments: the curves, in order of emission
    submobjects,    \* the VGroup's submobjects (self.add)
    growth_order,   \* self.growth_order
    stack,          \* the frames of _generate_recursive, innermost last
    hpc,            \* "idle", "running", "done" or "error" (an exception)
    prev,           \* the last seeded construction let go of (history)
    \* ---- AdvancedParticleSystem
    particles,      \* self.particles: "group" (glow VGroup) or "dot" each
    speeds,         \* self.speeds, in 1/100
    animations,     \* the list create_flow_animation returned
    started,        \* per played animation: when it began, in ms
    clock,          \* the scene's time, in ms
    run_time,       \* the run_time argument of create_flow_animation, in ms
    ppc,            \* "new", "built", "created", "played"
    \* ---- EducationalScene
    objectives, concepts, prerequisites, interactions, assessments,
    interactive_state,
    calls,          \* the add_* calls made so far, in order (history)
    \* ---- FullDocumentary.construct
    di,             \* the loop index i
    dpc,            \* the statement of the loop body to run next
    mobjects,       \* self.mobjects of the documentary
    events,         \* what has run so far, in order (history)
    scheduled,      \* sum of the SCENE_DURATIONS the scenes run read (history)
    \* ---- MycorrhizalDocumentary: speech files
    files,          \* the paths under audio/ that exist
    mpc,            \* "idle" between renders, "segments" within one
    mscene,         \* the scene being rendered
    mseg,           \* position in the scene's list of segments
    sounds,         \* the paths given to add_sound in this render
    mlog,           \* the segments run in this render, in order (history)
    genlog,         \* every call of generate_all_audio (history)
    \* ---- PerformanceOptimizer.get_particle_count
    PARTICLE_DENSITY,   \* the configuration setting
    base_count,         \* the base_count argument
    counts,              \* per setting: what the call returned (history)
    \* ---- AudioCueSystem
    ENABLE_SOUND_MARKERS,   \* the configuration flag
    cues,                   \* self.cues
    cue_calls,               \* the add_cue calls made, in order (history)
    \* ---- AdaptiveSubtitle.display_subtitles
    sub_lines,          \* the lines argument
    total_time,         \* the total_time argument, in ticks
    sub_i,              \* index of the line the loop is at
    previous_subtitle,  \* the local previous_subtitle (None or a subtitle)
    on_screen,          \* the subtitles the scene shows
    ypc,                \* the statement to run next
    plays,               \* what the scene played and waited, in order (history)
    \* ---- NeuralNetwork
    layer_sizes,        \* the layer_sizes argument
    nn_nodes,           \* the nodes generated, in order
    nn_edges,           \* the edges generated, in order
    nn_mobjects,        \* the keys of self.node_mobjects
    nn_anims,           \* what animate_forward_pass returned
    npc,                 \* "new", "built", "returned" or "error" (a KeyError)
    \* ---- NetworkTemplate
    node_data,          \* the keys of self.node_data
    edge_data,          \* self.edge_data
    edge_mobjects,      \* self.edge_mobjects
    path,               \* the path argument of highlight_path
    path_anims,         \* what highlight_path returned
    tpc                 \* "new", "built", "returned" or "error" (a KeyError)

subtitleVars == <<text, max_width, lines, spc>>
rngVars == <<npRandom, pyRandom>>
hyphaeVars == <<hargs, segments, submobjects, growth_order, stack, hpc, prev>>
particleVars == <<particles, speeds, animations, started, clock, run_time,
                  ppc>>
eduVars == <<objectives, concepts, prerequisites, interactions, assessments,
             interactive_state, calls>>
docVars == <<di, dpc, mobjects, events, scheduled>>
audioVars == <<files, mpc, mscene, mseg, sounds, mlog, genlog>>
densityVars == <<PARTICLE_DENSITY, base_count, counts>>
cueVars == <<ENABLE_SOUND_MARKERS, cues, cue_calls>>
displayVars == <<sub_lines, total_time, sub_i, previous_subtitle, on_screen,
                 ypc, plays>>
neuralVars == <<layer_sizes, nn_nodes, nn_edges, nn_mobjects, nn_anims, npc>>
networkVars == <<node_data, edge_data, edge_mobjects, path,
                 path_anims, tpc>>

vars == <<subtitleVars, rngVars, hyphaeVars, particleVars, eduVars, docVars,
          audioVars, densityVars, cueVars, displayVars, neuralVars, networkVars>>

\* what the actions of one part leave alone
NotSubtitle ==
    <<rngVars, hyphaeVars, particleVars, eduVars, docVars,
      audioVars, densityVars, cueVars, displayVars, neuralVars, networkVars>>
NotHyphae ==
    <<subtitleVars, particleVars, eduVars, docVars,
      audioVars, densityVars, cueVars, displayVars, neuralVars, networkVars>>
NotParticles ==
    <<subtitleVars, pyRandom, hyphaeVars, eduVars, docVars,
      audioVars, densityVars, cueVars, displayVars, neuralVars, networkVars>>
NotEdu ==
    <<subtitleVars, rngVars, hyphaeVars, particleVars, docVars,
      audioVars, densityVars, cueVars, displayVars, neuralVars, networkVars>>
NotDoc ==
    <<subtitleVars, rngVars, hyphaeVars, particleVars, eduVars,
      audioVars, densityVars, cueVars, displayVars, neuralVars, networkVars>>
NotAudio ==
    <<subtitleVars, rngVars, hyphaeVars, particleVars, eduVars, docVars,
      densityVars, cueVars, displayVars, neuralVars, networkVars>>
NotDensity ==
    <<subtitleVars, rngVars, hyphaeVars, particleVars, eduVars, docVars,
      audioVars, cueVars, displayVars, neuralVars, networkVars>>
NotCues ==
    <<subtitleVars, rngVars, hyphaeVars, particleVars, eduVars, docVars,
      audioVars, densityVars, displayVars, neuralVars, networkVars>>
NotDisplay ==
    <<subtitleVars, rngVars, hyphaeVars, particleVars, eduVars, docVars,
      audioVars, densityVars, cueVars, neuralVars, networkVars>>
NotNeural ==
    <<subtitleVars, npRandom, hyphaeVars, particleVars, eduVars, docVars,
      audioVars, densityVars, cueVars, displayVars, networkVars>>
NotNetwork ==
    <<subtitleVars, rngVars, hyphaeVars, particleVars, eduVars, docVars,
      audioVars, densityVars, cueVars, displayVars, neuralVars>>

\* ------------------------------------------------------------------
\* Bounds of the model
\* ------------------------------------------------------------------
MaxTextLen == 6         \* longest text given to create_subtitle
MaxWidthTenths == 7     \* widest max_width given to create_subtitle, in tenths
MaxDepth == 3           \* largest depth given to ProceduralHyphae
MaxParticles == 3       \* largest count given to AdvancedParticleSystem
MaxCalls == 3           \* most add_* calls made on an EducationalScene
RngBits == 6            \* the modelled generators have 2^RngBits states
Resolution == 16        \* a draw takes one of Resolution equidistant values
RecursionLimit == 8     \* frames Python allows before RecursionError
MaxPreexisting == 2     \* most speech files there before the first render
MaxRenders == 2         \* most renders started one after another
MaxBaseCount == 30      \* largest base_count given to get_particle_count
MaxCues == 3            \* most add_cue calls made on an AudioCueSystem
MaxCueTime == 2         \* latest cue time, in seconds
MaxLines == 3           \* most lines given to display_subtitles
MaxTotalSeconds == 8    \* largest total_time given to display_subtitles
MaxLayers == 3          \* most layers of a NeuralNetwork
MaxLayerSize == 3       \* most neurons in a layer
MaxInputs == 3          \* most values given to animate_forward_pass
MaxEdges == 2           \* most edges of a NetworkTemplate
MaxPathLen == 3         \* longest path given to highlight_path

\* ------------------------------------------------------------------
\* Helpers shared by the parts
\* ------------------------------------------------------------------
\* Python's int() on the quotient n / d (d > 0): truncation toward zero.
PyInt(n, d) == IF n >= 0 THEN n \div d ELSE -((-n) \div d)

\* ==================================================================
\* AdaptiveSubtitle.create_subtitle: the word wrap
\* ==================================================================
Space == " "
Alphabet == {"a", "b", Space}
Texts == UNION {[1..n -> Alphabet] : n \in 0..MaxTextLen}
\* max_width in tenths, from 0.2 (a budget of one character) upward
MaxWidths == 2..MaxWidthTenths

\* str.split() with no argument: the maximal runs of non-whitespace
\* characters, in order; `word` is the run being read.
RECURSIVE SplitFrom(_, _, _)
SplitFrom(s, i, word) ==
    IF i > Len(s)
    THEN IF word = <<>> THEN <<>> ELSE <<word>>
    ELSE IF s[i] = Space
         THEN IF word = <<>>
              THEN SplitFrom(s, i + 1, <<>>)
              ELSE <<word>> \o SplitFrom(s, i + 1, <<>>)
         ELSE SplitFrom(s, i + 1, Append(word, s[i]))

Split(s) == SplitFrom(s, 1, <<>>)

\* ' '.join(ws)
RECURSIVE Join(_)
Join(ws) ==
    IF ws = <<>> THEN <<>>
    ELSE IF Len(ws) = 1 THEN ws[1]
    ELSE ws[1] \o <<Space>> \o Join(Tail(ws))

\* chars_per_line = int(max_width * 8.5), max_width given in tenths
CharsPerLine(mw) == PyInt(mw * 85, 100)

\* the test of the wrap loop: len(test_line) <= chars_per_line
FitsStrictly(test_line, chars_per_line) == Len(test_line) < chars_per_line
FitsOffByOne(test_line, chars_per_line) == Len(test_line) <= chars_per_line + 1
Fits(test_line, chars_per_line) == Len(test_line) <= chars_per_line

\* The wrap loop over words[i..], with the lines closed so far and the
\* words of the line being filled; the final `if current_line` included.
RECURSIVE WrapLoopDroppingWord(_, _, _, _, _)
WrapLoopDroppingWord(words, i, chars_per_line, done, current_line) ==
    IF i > Len(words)
    THEN IF current_line # <<>> THEN Append(done, Join(current_line)) ELSE done
    ELSE LET word == words[i]
             test_line == Join(Append(current_line, word))
         IN IF Fits(test_line, chars_per_line)
            THEN WrapLoopDroppingWord(words, i + 1, chars_per_line, done,
                                      Append(current_line, word))
            ELSE WrapLoopDroppingWord(words, i + 1, chars_per_line,
                                      IF current_line # <<>>
                                      THEN Append(done, Join(current_line))
                                      ELSE done,
                                      <<>>)
RECURSIVE WrapLoop(_, _, _, _, _)
WrapLoop(words, i, chars_per_line, done, current_line) ==
    IF i > Len(words)
    THEN IF current_line # <<>> THEN Append(done, Join(current_line)) ELSE done
    ELSE LET word == words[i]
             test_line == Join(Append(current_line, word))
         IN IF Fits(test_line, chars_per_line)
            THEN WrapLoop(words, i + 1, chars_per_line, done,
                          Append(current_line, word))
            ELSE WrapLoop(words, i + 1, chars_per_line,
                          IF current_line # <<>>
                          THEN Append(done, Join(current_line)) ELSE done,
                          <<word>>)

WordWrap(t, mw) == WrapLoop(Split(t), 1, CharsPerLine(mw), <<>>, <<>>)

SubtitleOff ==
    /\ text = <<>>
    /\ max_width = 0
    /\ lines = <<>>
    /\ spc = "off"

InitSubtitleInputs ==
    /\ text \in Texts
    /\ max_width \in MaxWidths
    /\ lines = <<>>
    /\ spc = "call"

create_subtitle ==
    /\ spc = "call"
    /\ lines' = WordWrap(text, max_width)
    /\ spc' = "done"
    /\ UNCHANGED <<text, max_width>>
    /\ UNCHANGED NotSubtitle

\* ==================================================================
\* The global random generators (np.random, random)
\* ==================================================================
\* The generators are deterministic machines: a state, a step, and a draw
\* that is a function of the state.  The Mersenne Twister is modelled by a
\* linear congruential generator with 2^RngBits states; np.random starts
\* in any of them, so the runs differ in their draws.
RngMod == 2 ^ RngBits
RngStates == 0..(RngMod - 1)
RngStep(s) == (s * 13 + 7) % RngMod
\* the value drawn in state s: one of 0..Resolution-1, standing for the
\* real number Draw(s) / Resolution of [0, 1)
Draw(s) == (s * Resolution) \div RngMod

\* np.random.seed(seed) / random.seed(seed): the state is a function of
\* the seed alone
SeedState(seed) == (seed * 7 + 3) % RngMod

\* np.random.uniform(lo, hi) for the draw r: lo + (hi - lo) * u, u = r / Resolution
Uniform(lo, hi, r) == lo + PyInt((hi - lo) * r, Resolution)

\* np.random.random() for the draw r, in 1/10000
Random01(r) == (r * 10000) \div Resolution

\* np.random.choice([1, 2, 3], p=[0.3, 0.55, 0.15]) for the draw r: the
\* first value whose cumulative probability exceeds u
ChoiceWithZero(r) ==
    IF Random01(r) < 3000 THEN 0 ELSE IF Random01(r) < 8500 THEN 1 ELSE 2
Choice123(r) ==
    IF Random01(r) < 3000 THEN 1 ELSE IF Random01(r) < 8500 THEN 2 ELSE 3

\* ==================================================================
\* ProceduralHyphae
\* ==================================================================
\* Units: lengths and coordinates in 1/3125000 (1.2 is 3750000), stroke
\* widths in 1/6400000 (2.5 is 16000000), angles in PI/40, probabilities
\* in 1/10000.  With these units the decay factors are exact down to
\* depth 1.
None == -1              \* seed=None (no valid seed is negative)
PI == 40
length == 3750000       \* length: float = 1.2
stroke_width == 16000000 \* stroke_width: float = 2.5
angle_variance == 10    \* angle_variance: float = PI / 4
branch_probability == 7000 \* branch_probability: float = 0.7
curvature == 15         \* curvature: float = 0.15, in 1/100

ORIGIN == <<0, 0, 0>>
Starts == {ORIGIN, <<0, -7812500, 0>>}      \* ORIGIN, DOWN * 2.5
Seeds == {42, 123}
Depths == -1..MaxDepth

\* 100 * cos(k * PI/40) for k = 0..20
CosTable == <<100, 100, 99, 97, 95, 92, 89, 85, 81, 76, 71,
              65, 59, 52, 45, 38, 31, 23, 16, 8, 0>>
Cos100(a) ==
    LET m == a % 80
    IN IF m <= 20 THEN CosTable[m + 1]
       ELSE IF m <= 40 THEN -CosTable[40 - m + 1]
       ELSE IF m <= 60 THEN -CosTable[m - 40 + 1]
       ELSE CosTable[80 - m + 1]
Sin100(a) == Cos100(a - 20)

\* p + scale * [cos(a), sin(a), 0]
Polar(p, scale, a) ==
    << p[1] + PyInt(scale * Cos100(a), 100),
       p[2] + PyInt(scale * Sin100(a), 100),
       p[3] >>

\* p + (q - p) * pct / 100
Lerp(p, q, pct) ==
    << p[1] + PyInt((q[1] - p[1]) * pct, 100),
       p[2] + PyInt((q[2] - p[2]) * pct, 100),
       p[3] + PyInt((q[3] - p[3]) * pct, 100) >>

\* x * (num/den) ** k, k of either sign
RECURSIVE Decay(_, _, _, _)
Decay(x, num, den, k) ==
    IF k = 0 THEN x
    ELSE IF k > 0 THEN Decay((x * num) \div den, num, den, k - 1)
    ELSE Decay((x * den) \div num, num, den, k + 1)

\* length * (0.8 ** (6 - depth)) * np.random.uniform(0.85, 1.15)
SegmentLength(len, depth, r) ==
    (Decay(len, 4, 5, 6 - depth) * Uniform(85, 115, r)) \div 100

\* width * (0.85 ** (6 - depth))
SegmentWidthNoDecay(width, depth) == width
SegmentWidth(width, depth) == Decay(width, 17, 20, 6 - depth)

\* if depth <= 0: return
BaseCaseStrict(depth) == depth < 0
BaseCase(depth) == depth <= 0

\* np.random.random() < branch_prob and depth > 1
Branches(r, branch_prob, depth) == Random01(r) < branch_prob /\ depth > 1

Frame(pos, angle, depth, branch_prob, parent) ==
    [pos |-> pos, angle |-> angle, depth |-> depth,
     branch_prob |-> branch_prob, parent |-> parent,
     pc |-> "entry", end_pos |-> pos, current_angle |-> angle,
     remaining |-> 0, me |-> 0]

\* the call of the loop body: self._generate_recursive(end_pos,
\* branch_angle, depth - 1, ..., branch_prob * 0.85, ...)
BranchCall(f, branch_angle) ==
    Frame(f.end_pos, branch_angle, f.depth - 1,
          (f.branch_prob * 85) \div 100, f.me)

\* the single continuation: self._generate_recursive(end_pos,
\* current_angle, depth - 1, ..., branch_prob, ...)
ContinuationSameDepth(f) ==
    Frame(f.end_pos, f.current_angle, f.depth, f.branch_prob, f.me)
ContinuationFromPos(f) ==
    Frame(f.pos, f.current_angle, f.depth - 1, f.branch_prob, f.me)
Continuation(f) ==
    Frame(f.end_pos, f.current_angle, f.depth - 1, f.branch_prob, f.me)

\* random.seed(seed); np.random.seed(seed): the two states after line 784
SeedOnlyPython(seed, np, py) ==
    IF seed # None THEN [np |-> np, py |-> SeedState(seed)]
    ELSE [np |-> np, py |-> py]
SeedGenerators(seed, np, py) ==
    IF seed # None THEN [np |-> SeedState(seed), py |-> SeedState(seed)]
    ELSE [np |-> np, py |-> py]

Top == stack[Len(stack)]
Pop == SubSeq(stack, 1, Len(stack) - 1)

NoPrev == [args |-> [start |-> ORIGIN, depth |-> 0, seed |-> None],
           segments |-> <<>>]

HyphaeOff ==
    /\ hargs = NoPrev.args
    /\ segments = <<>>
    /\ submobjects = <<>>
    /\ growth_order = <<>>
    /\ stack = <<>>
    /\ hpc = "off"
    /\ prev = NoPrev

\* The generators are seeded from the operating system when the process
\* starts: np.random may be in any state.
InitHyphaeInputs ==
    /\ npRandom \in RngStates
    /\ pyRandom = 0
    /\ hargs = NoPrev.args
    /\ segments = <<>>
    /\ submobjects = <<>>
    /\ growth_order = <<>>
    /\ stack = <<>>
    /\ hpc = "idle"
    /\ prev = NoPrev

\* A draw from np.random made by other code between two constructions
\* (as the scenes do when they place trees and nodes).
OtherDraw ==
    /\ hpc = "idle"
    /\ npRandom' = RngStep(npRandom)
    /\ UNCHANGED <<pyRandom, hargs, segments, submobjects, growth_order,
                   stack, hpc, prev>>
    /\ UNCHANGED NotHyphae

\* ProceduralHyphae.__init__ up to the call of _generate_recursive
Construct(start, depth, seed) ==
    /\ hpc = "idle"
    /\ LET g == SeedGenerators(seed, npRandom, pyRandom)
       IN /\ npRandom' = g.np
          /\ pyRandom' = g.py
    /\ hargs' = [start |-> start, depth |-> depth, seed |-> seed]
    /\ segments' = <<>>
    /\ submobjects' = <<>>
    /\ growth_order' = <<>>
    /\ stack' = <<Frame(start, -(PI \div 2), depth, branch_probability, 0)>>
    /\ hpc' = "running"
    /\ UNCHANGED prev
    /\ UNCHANGED NotHyphae

\* _generate_recursive entered with depth <= 0: return
GenerateReturnAtOnce ==
    /\ hpc = "running"
    /\ stack # <<>>
    /\ Top.pc = "entry"
    /\ BaseCase(Top.depth)
    /\ stack' = Pop
    /\ UNCHANGED <<npRandom, pyRandom, hargs, segments, submobjects,
                   growth_order, hpc, prev>>
    /\ UNCHANGED NotHyphae

\* _generate_recursive entered with depth > 0: lines 804-853 up to the
\* first recursive call (or to the loop, when the node forks)
GenerateSegment ==
    /\ hpc = "running"
    /\ stack # <<>>
    /\ Top.pc = "entry"
    /\ ~BaseCase(Top.depth)
    /\ LET f == Top
           s1 == RngStep(npRandom)
           s2 == RngStep(s1)
           s3 == RngStep(s2)
           s4 == RngStep(s3)
           s5 == RngStep(s4)
           segment_length == SegmentLength(length, f.depth, Draw(npRandom))
           current_angle ==
               f.angle + Uniform(-((angle_variance * 3) \div 10),
                                 (angle_variance * 3) \div 10, Draw(s1))
           end_pos == Polar(f.pos, segment_length, current_angle)
           control_offset == (segment_length * curvature) \div 100
           control_angle ==
               current_angle + Uniform(-(PI \div 8), PI \div 8, Draw(s2))
           control1 == Polar(Lerp(f.pos, end_pos, 33),
                             control_offset, control_angle)
           control2 == Polar(Lerp(f.pos, end_pos, 67),
                             control_offset, control_angle + PI)
           me == Len(segments) + 1
           curve == [start |-> f.pos, control1 |-> control1,
                     control2 |-> control2, end |-> end_pos,
                     width |-> SegmentWidth(stroke_width, f.depth),
                     length |-> segment_length,
                     depth |-> f.depth, parent |-> f.parent]
           g == [f EXCEPT !.end_pos = end_pos,
                          !.current_angle = current_angle,
                          !.me = me, !.pc = "loop"]
       IN /\ segments' = Append(segments, curve)
          /\ submobjects' = Append(submobjects, me)
          /\ IF Branches(Draw(s3), f.branch_prob, f.depth)
             THEN /\ npRandom' = s5
                  /\ stack' = Append(Pop,
                                [g EXCEPT !.remaining = Choice123(Draw(s4))])
                  /\ hpc' = hpc
             ELSE /\ npRandom' = s4
                  /\ IF Len(stack) >= RecursionLimit
                     THEN /\ stack' = stack
                          /\ hpc' = "error"
                     ELSE /\ stack' = Append(Append(Pop, g), Continuation(g))
                          /\ hpc' = hpc
    /\ UNCHANGED <<pyRandom, hargs, growth_order, prev>>
    /\ UNCHANGED NotHyphae

\* one iteration of `for _ in range(num_branches)`: lines 840-846
BranchIteration ==
    /\ hpc = "running"
    /\ stack # <<>>
    /\ Top.pc = "loop"
    /\ Top.remaining > 0
    /\ LET f == Top
           branch_angle ==
               f.current_angle
                   + Uniform(-angle_variance, angle_variance, Draw(npRandom))
           g == [f EXCEPT !.remaining = f.remaining - 1]
       IN /\ npRandom' = RngStep(npRandom)
          /\ IF Len(stack) >= RecursionLimit
             THEN /\ stack' = stack
                  /\ hpc' = "error"
             ELSE /\ stack' = Append(Append(Pop, g), BranchCall(g, branch_angle))
                  /\ hpc' = hpc
    /\ UNCHANGED <<pyRandom, hargs, segments, submobjects, growth_order, prev>>
    /\ UNCHANGED NotHyphae

\* the loop is over, or the single continuation has returned: return
GenerateReturn ==
    /\ hpc = "running"
    /\ stack # <<>>
    /\ Top.pc = "loop"
    /\ Top.remaining = 0
    /\ stack' = Pop
    /\ UNCHANGED <<npRandom, pyRandom, hargs, segments, submobjects,
                   growth_order, hpc, prev>>
    /\ UNCHANGED NotHyphae

\* ProceduralHyphae.__init__ after the call: line 793
FinishConstruct ==
    /\ hpc = "running"
    /\ stack = <<>>
    /\ growth_order' = [i \in 1..Len(segments) |-> i - 1]
    /\ hpc' = "done"
    /\ UNCHANGED <<npRandom, pyRandom, hargs, segments, submobjects,
                   stack, prev>>
    /\ UNCHANGED NotHyphae

\* The constructor has returned and the script goes on: the model lets go
\* of the object, remembering it in `prev` when it was built with a seed.
ScriptGoesOn ==
    /\ hpc = "done"
    /\ prev' = IF hargs.seed # None
               THEN [args |-> hargs, segments |-> segments]
               ELSE prev
    /\ hargs' = NoPrev.args
    /\ segments' = <<>>
    /\ submobjects' = <<>>
    /\ growth_order' = <<>>
    /\ hpc' = "idle"
    /\ UNCHANGED <<npRandom, pyRandom, stack>>
    /\ UNCHANGED NotHyphae

GenerateStep ==
    \/ GenerateReturnAtOnce
    \/ GenerateSegment
    \/ BranchIteration
    \/ GenerateReturn
    \/ FinishConstruct

\* ==================================================================
\* AdvancedParticleSystem
\* ==================================================================
\* Times in milliseconds, speed modifiers in 1/100, proportions in 1/1000.
speed_variance == 30    \* speed_variance: float = 0.3
Counts == 1..MaxParticles
RunTimes == {4000, 6000, 10000}     \* run_time=4.0, 6.0 (default), 10.0

\* the generator state after k draws
RECURSIVE RngAfter(_, _)
RngAfter(s, k) == IF k = 0 THEN s ELSE RngAfter(RngStep(s), k - 1)

\* alpha = (i / count) * 0.3
StartProportion(i, count) == (i * 300) \div count

\* delay = (i / len(self.particles)) * run_time * 0.4
Delay(i, n, rt) == (i * rt * 4) \div (n * 10)

\* adjusted_runtime = run_time * speed_mod
AdjustedRuntime(rt, speed_mod) == (rt * speed_mod) \div 100

\* MoveAlongPath(p, self.path, run_time=adjusted_runtime, rate_func=smooth)
MoveAlongPath(i, part, rt) == [particle |-> i, part |-> part, run_time |-> rt]

\* the animations of particle i (0-based), of speed speed_mod
AnimationsOf(i, kind, rt, speed_mod) ==
    LET delay == Delay(i, Len(particles), rt)
        adjusted_runtime == AdjustedRuntime(rt, speed_mod)
    IN IF kind = "group"
       THEN << MoveAlongPath(i, "glow_circle", adjusted_runtime),
               MoveAlongPath(i, "particle", adjusted_runtime) >>
       ELSE << MoveAlongPath(i, "particle", adjusted_runtime) >>

RECURSIVE FlowAnimations(_, _)
FlowAnimations(i, rt) ==
    IF i >= Len(particles) THEN <<>>
    ELSE AnimationsOf(i, particles[i + 1].kind, rt, speeds[i + 1])
             \o FlowAnimations(i + 1, rt)

RECURSIVE MaxRunTime(_)
MaxRunTime(anims) ==
    IF anims = <<>> THEN 0
    ELSE LET m == MaxRunTime(Tail(anims))
         IN IF Head(anims).run_time > m THEN Head(anims).run_time ELSE m

ParticlesOff ==
    /\ particles = <<>>
    /\ speeds = <<>>
    /\ animations = <<>>
    /\ started = <<>>
    /\ clock = 0
    /\ run_time = 0
    /\ ppc = "off"

InitParticlesInputs ==
    /\ particles = <<>>
    /\ speeds = <<>>
    /\ animations = <<>>
    /\ started = <<>>
    /\ clock = 0
    /\ run_time = 0
    /\ ppc = "new"

\* AdvancedParticleSystem.__init__
ParticleSystemInit(count, glow) ==
    /\ ppc = "new"
    /\ particles' = [k \in 1..count |->
                        [kind |-> IF glow THEN "group" ELSE "dot",
                         alpha |-> StartProportion(k - 1, count)]]
    /\ speeds' = [k \in 1..count |->
                     100 + Uniform(-speed_variance, speed_variance,
                                   Draw(RngAfter(npRandom, k - 1)))]
    /\ npRandom' = RngAfter(npRandom, count)
    /\ ppc' = "built"
    /\ UNCHANGED <<animations, started, clock, run_time>>
    /\ UNCHANGED NotParticles

\* AdvancedParticleSystem.create_flow_animation
create_flow_animation(rt) ==
    /\ ppc = "built"
    /\ run_time' = rt
    /\ animations' = FlowAnimations(0, rt)
    /\ ppc' = "created"
    /\ UNCHANGED <<particles, speeds, started, clock, npRandom>>
    /\ UNCHANGED NotParticles

\* self.play(*particles.create_flow_animation(...)): the animations given
\* to one play begin together, and the play lasts as long as the longest
PlayFlow ==
    /\ ppc = "created"
    /\ started' = [k \in 1..Len(animations) |-> clock]
    /\ clock' = clock + MaxRunTime(animations)
    /\ ppc' = "played"
    /\ UNCHANGED <<particles, speeds, animations, run_time, npRandom>>
    /\ UNCHANGED NotParticles

\* ==================================================================
\* EducationalScene (sciviz_core.py)
\* ==================================================================
\* Argument values of the add_* calls.  Every value is a string, so that
\* records of different calls can be compared.
ObjectiveIds == {"obj_a", "obj_b"}
ConceptIds == {"con_a", "con_b"}
PrereqIds == {"pre_a", "pre_b"}
Names == {"speed", "size"}
Labels == {"", "Label"}
ToggleDefaults == {"True", "False"}
Timestamps == {"5.0", "10.0"}
NoValue == "None"
Unset == "unset"

\* LearningObjective(id=..., description=..., bloom_level=..., ...)
LearningObjective(id) ==
    [id |-> id, description |-> "d", bloom_level |-> "UNDERSTAND",
     assessment_method |-> "quiz"]

\* Concept(id=..., name=..., definition=...)
Concept(id) == [id |-> id, name |-> id, definition |-> "d"]

\* label or name
LabelOr(label, name) == IF label = "" THEN name ELSE label

\* InteractiveElement(...) as add_slider, add_button and add_toggle build it
InteractiveElement(prefix, type, label, name, range, default) ==
    [id |-> <<prefix, name>>, type |-> type, label |-> LabelOr(label, name),
     target |-> name, range |-> range, default |-> default,
     callback |-> "on_change", learning_hook |-> NoValue, description |-> ""]

\* Question(id=f"q_{len(self.assessments)}", ...) in AssessmentCheckpoint(...)
AssessmentCheckpoint(timestamp, question, n) ==
    [timestamp |-> timestamp,
     question |-> [id |-> <<"q_", n>>, text |-> question,
                   type |-> "multiple_choice", options |-> NoValue,
                   correct_answer |-> "a", points |-> "1", explanation |-> ""],
     feedback_correct |-> "Correct!",
     feedback_incorrect |-> "Not quite. Try again.",
     hints |-> <<>>, related_concepts |-> <<>>]

\* list.append
ListInsertFront(list, x) == <<x>> \o list
ListAppend(list, x) == Append(list, x)

EduOff ==
    /\ objectives = <<>>
    /\ concepts = <<>>
    /\ prerequisites = <<>>
    /\ interactions = <<>>
    /\ assessments = <<>>
    /\ interactive_state = [n \in Names |-> Unset]
    /\ calls = <<>>

\* EducationalScene.__init__
InitEduInputs ==
    /\ objectives = <<>>
    /\ concepts = <<>>
    /\ prerequisites = <<>>
    /\ interactions = <<>>
    /\ assessments = <<>>
    /\ interactive_state = [n \in Names |-> Unset]
    /\ calls = <<>>

\* the script makes at most MaxCalls calls
MayCall == Len(calls) < MaxCalls

Called(op, key) == calls' = Append(calls, [op |-> op, key |-> key])

add_objective(objective) ==
    /\ MayCall
    /\ objectives' = ListAppend(objectives, objective)
    /\ Called("add_objective", objective.id)
    /\ UNCHANGED <<concepts, prerequisites, interactions, assessments,
                   interactive_state>>
    /\ UNCHANGED NotEdu

add_concept(concept) ==
    /\ MayCall
    /\ concepts' = ListAppend(concepts, concept)
    /\ Called("add_concept", concept.id)
    /\ UNCHANGED <<objectives, prerequisites, interactions, assessments,
                   interactive_state>>
    /\ UNCHANGED NotEdu

add_prerequisite(prereq_id) ==
    /\ MayCall
    /\ prerequisites' = ListAppend(prerequisites, prereq_id)
    /\ Called("add_prerequisite", prereq_id)
    /\ UNCHANGED <<objectives, concepts, interactions, assessments,
                   interactive_state>>
    /\ UNCHANGED NotEdu

add_slider(name, range, default, label) ==
    /\ MayCall
    /\ LET element == InteractiveElement("slider_", "slider", label, name,
                                         range, default)
       IN interactions' = ListAppend(interactions, element)
    /\ interactive_state' = [interactive_state EXCEPT ![name] = default]
    /\ Called("add_slider", name)
    /\ UNCHANGED <<objectives, concepts, prerequisites, assessments>>
    /\ UNCHANGED NotEdu

add_button(name, label) ==
    /\ MayCall
    /\ LET element == InteractiveElement("button_", "button", label, name,
                                         NoValue, NoValue)
       IN interactions' = ListAppend(interactions, element)
    /\ Called("add_button", name)
    /\ UNCHANGED <<objectives, concepts, prerequisites, assessments,
                   interactive_state>>
    /\ UNCHANGED NotEdu

add_toggle(name, default, label) ==
    /\ MayCall
    /\ LET element == InteractiveElement("toggle_", "toggle", label, name,
                                         NoValue, default)
       IN interactions' = ListAppend(interactions, element)
    /\ interactive_state' = [interactive_state EXCEPT ![name] = default]
    /\ Called("add_toggle", name)
    /\ UNCHANGED <<objectives, concepts, prerequisites, assessments>>
    /\ UNCHANGED NotEdu

add_checkpoint(timestamp, question) ==
    /\ MayCall
    /\ LET checkpoint == AssessmentCheckpoint(timestamp, question,
                                              Len(assessments))
       IN assessments' = ListAppend(assessments, checkpoint)
    /\ Called("add_checkpoint", <<timestamp, question>>)
    /\ UNCHANGED <<objectives, concepts, prerequisites, interactions,
                   interactive_state>>
    /\ UNCHANGED NotEdu

\* Question(id=..., text=..., type=...)
Question(n) ==
    [id |-> <<"quiz_", n>>, text |-> "Which?", type |-> "true_false",
     options |-> NoValue, correct_answer |-> "a", points |-> "1",
     explanation |-> ""]
Quizzes == {<<Question(1)>>, <<Question(1), Question(2)>>}

\* add_quiz has a docstring and no statement: the call returns None and
\* changes nothing of the scene.
add_quiz(questions, timestamp) ==
    /\ MayCall
    /\ Called("add_quiz", <<timestamp, questions>>)
    /\ UNCHANGED <<objectives, concepts, prerequisites, interactions,
                   assessments, interactive_state>>
    /\ UNCHANGED NotEdu

\* ==================================================================
\* FullDocumentary.construct
\* ==================================================================
scenes == << "IntroScene", "HistoryScene", "NetworkOverviewScene",
             "MiningExchangeScene", "CommunicationScene",
             "ArchitectureScene", "CompetitionScene", "EcosystemsScene",
             "ResearchMethodsScene", "ThreatsRestorationScene",
             "ConclusionScene" >>

\* What a scene's construct may leave among the documentary's mobjects.
\* The scene instance is another Scene that shares the documentary's
\* renderer and camera; whichever of its mobjects reach the documentary,
\* the model allows.
SceneMobjects == {"backdrop", "caption", "network"}

\* if i > 0 (i is 0-based)
AlwaysTransition(i) == i >= 0
NeedsTransition(i) == i > 0

\* self.remove(*self.mobjects)
RemoveAll(mobs) == mobs \ mobs

\* Scene timing (seconds)
SceneDurationsWithLongIntro ==
    [IntroScene |-> 165, HistoryScene |-> 195, NetworkOverviewScene |-> 255,
     MiningExchangeScene |-> 235, CommunicationScene |-> 175,
     ArchitectureScene |-> 135, CompetitionScene |-> 115,
     EcosystemsScene |-> 115, ResearchMethodsScene |-> 165,
     ThreatsRestorationScene |-> 215, ConclusionScene |-> 60]
SCENE_DURATIONS ==
    [IntroScene |-> 135, HistoryScene |-> 195, NetworkOverviewScene |-> 255,
     MiningExchangeScene |-> 235, CommunicationScene |-> 175,
     ArchitectureScene |-> 135, CompetitionScene |-> 115,
     EcosystemsScene |-> 115, ResearchMethodsScene |-> 165,
     ThreatsRestorationScene |-> 215, ConclusionScene |-> 60]

DocOff ==
    /\ di = 0
    /\ dpc = "off"
    /\ mobjects = {}
    /\ events = <<>>
    /\ scheduled = 0

\* construct is entered: i = 0, at the head of the loop body
InitDocInputs ==
    /\ di = 0
    /\ dpc = "transition"
    /\ mobjects = {}
    /\ events = <<>>
    /\ scheduled = 0

\* lines 3070-3072: SceneTransitions.fade_through_black(self, run_time=1.2),
\* which adds fade_rect, plays, waits, plays and removes fade_rect again
SceneTransition ==
    /\ dpc = "transition"
    /\ IF NeedsTransition(di)
       THEN /\ mobjects' = (mobjects \cup {"fade_rect"}) \ {"fade_rect"}
            /\ events' = Append(events, "fade_through_black")
       ELSE UNCHANGED <<mobjects, events>>
    /\ dpc' = "scene"
    /\ UNCHANGED <<di, scheduled>>
    /\ UNCHANGED NotDoc

\* lines 3074-3084: scene_instance = SceneClass(); scene_instance.construct()
\* The scene's construct reads SCENE_DURATIONS[<its class name>] for its
\* subtitles; a missing entry is a KeyError that ends the documentary.
RenderScene(left) ==
    /\ dpc = "scene"
    /\ IF scenes[di + 1] \in DOMAIN SCENE_DURATIONS
       THEN /\ mobjects' = mobjects \cup left
            /\ events' = Append(events, scenes[di + 1])
            /\ scheduled' = scheduled + SCENE_DURATIONS[scenes[di + 1]]
            /\ dpc' = "wait"
       ELSE /\ dpc' = "error"
            /\ UNCHANGED <<mobjects, events, scheduled>>
    /\ UNCHANGED di
    /\ UNCHANGED NotDoc

\* lines 3086-3087: self.wait(0.5)
BufferWait ==
    /\ dpc = "wait"
    /\ events' = Append(events, "wait")
    /\ dpc' = "clear"
    /\ UNCHANGED <<di, mobjects, scheduled>>
    /\ UNCHANGED NotDoc

\* lines 3089-3090: self.remove(*self.mobjects), and the loop goes on
ClearForNext ==
    /\ dpc = "clear"
    /\ mobjects' = RemoveAll(mobjects)
    /\ events' = Append(events, "remove")
    /\ di' = di + 1
    /\ dpc' = IF di + 1 < Len(scenes) THEN "transition" ELSE "done"
    /\ UNCHANGED scheduled
    /\ UNCHANGED NotDoc

\* ==================================================================
\* MycorrhizalDocumentary: speech files          (manim-documentary.py)
\* ==================================================================
\* The filenames of the list `segments` of generate_all_audio, in order.
AudioSegments ==
    <<"01_opening", "02_intro", "03_colonization", "04_carbon",
      "05_nutrients", "06_network", "07_transfer", "08_defense",
      "09_complexity", "10_conclusion", "11_closing">>

\* segment_voiceover[k]: the name segment k passes to add_voiceover.
segment_voiceover_misnamed ==
    <<"01_opening", "02_introduction", "03_colonization", "04_carbon_flow",
      "05_nutrient_exchange", "06_network", "07_transfer", "08_defense",
      "09_complexity", "10_conclusion", "11_closing">>
segment_voiceover ==
    <<"01_opening", "02_intro", "03_colonization", "04_carbon",
      "05_nutrients", "06_network", "07_transfer", "08_defense",
      "09_complexity", "10_conclusion", "11_closing">>

\* audio_path = f"audio/segment_{filename}.mp3"
AudioPath(filename) == <<"audio/segment_", filename, ".mp3">>
AllAudioPaths == {AudioPath(AudioSegments[k]) : k \in 1..Len(AudioSegments)}

\* `if not os.path.exists(audio_path)`: is the file synthesised?
AlwaysSynthesise(exists) == TRUE
NeedsSynthesis(exists) == ~exists

\* The loop of generate_all_audio from entry i on.  gTTS is an external
\* service: `ok` syntheses succeed, the next one raises and ends the call.
RECURSIVE SynthLoop(_, _, _, _)
SynthLoop(i, fs, made, ok) ==
    IF i > Len(AudioSegments)
    THEN [files |-> fs, made |-> made, raised |-> FALSE]
    ELSE LET audio_path == AudioPath(AudioSegments[i]) IN
         IF ~NeedsSynthesis(audio_path \in fs)
         THEN SynthLoop(i + 1, fs, made, ok)
         ELSE IF ok = 0
              THEN [files |-> fs, made |-> made, raised |-> TRUE]
              ELSE SynthLoop(i + 1, fs \cup {audio_path},
                             Append(made, AudioSegments[i]), ok - 1)

\* The scenes of the script and the segments each one runs, in order.
AudioScenes == {"MycorrhizalDocumentary", "TestSegment01", "TestSegment02"}
SceneSegments(scene) ==
    CASE scene = "MycorrhizalDocumentary" -> <<1, 2, 3, 4, 5, 6, 7, 8, 9, 10, 11>>
      [] scene = "TestSegment01" -> <<1>>
      [] scene = "TestSegment02" -> <<2>>

AudioOff ==
    /\ files = {}
    /\ mpc = "off"
    /\ mscene = "none"
    /\ mseg = 0
    /\ sounds = <<>>
    /\ mlog = <<>>
    /\ genlog = <<>>

\* Speech files of earlier renders may be there when a render begins.
InitAudioInputs ==
    /\ files \in {fs \in SUBSET AllAudioPaths : Cardinality(fs) <= MaxPreexisting}
    /\ mpc = "idle"
    /\ mscene = "none"
    /\ mseg = 0
    /\ sounds = <<>>
    /\ mlog = <<>>
    /\ genlog = <<>>

\* A render of `scene` begins: construct calls generate_all_audio first.
generate_all_audio(scene, ok) ==
    /\ mpc = "idle"
    /\ Len(genlog) < MaxRenders
    /\ LET r == SynthLoop(1, files, <<>>, ok) IN
       /\ files' = r.files
       /\ genlog' = Append(genlog, [before |-> files, made |-> r.made,
                                    after |-> r.files, raised |-> r.raised])
       /\ mpc' = IF r.raised THEN "idle" ELSE "segments"
    /\ mscene' = scene
    /\ mseg' = 1
    /\ sounds' = <<>>
    /\ mlog' = <<>>
    /\ UNCHANGED NotAudio

\* The next segment of the scene runs; it calls add_voiceover once.
Segment ==
    /\ mpc = "segments"
    /\ LET k == SceneSegments(mscene)[mseg]
           audio_path == AudioPath(segment_voiceover[k])
       IN /\ sounds' = IF audio_path \in files
                       THEN Append(sounds, audio_path)
                       ELSE sounds
          /\ mlog' = Append(mlog, k)
    /\ mseg' = mseg + 1
    /\ mpc' = IF mseg < Len(SceneSegments(mscene)) THEN "segments" ELSE "idle"
    /\ UNCHANGED <<files, mscene, genlog>>
    /\ UNCHANGED NotAudio

\* ==================================================================
\* PerformanceOptimizer.get_particle_count      (advanced_manim_doc.py)
\* ==================================================================
Densities == {"low", "medium", "high"}
BaseCounts == 0..MaxBaseCount

Max(a, b) == IF a >= b THEN a ELSE b

\* the value get_particle_count(base) returns under the setting `density`
GetParticleCount(density, base) ==
    IF density = "low" THEN Max(5, base \div 3)
    ELSE IF density = "medium" THEN Max(8, base \div 2)
    ELSE base

DensityOff ==
    /\ PARTICLE_DENSITY = "off"
    /\ base_count = 0
    /\ counts = [d \in Densities |-> None]

\* PARTICLE_DENSITY = "high" as the file is shipped; base_count is the
\* caller's.
InitDensityInputs ==
    /\ PARTICLE_DENSITY = "high"
    /\ base_count \in BaseCounts
    /\ counts = [d \in Densities |-> None]

\* The user edits the setting (usage guide, "Configure Performance").
ConfigureDensity(density) ==
    /\ PARTICLE_DENSITY \in Densities
    /\ PARTICLE_DENSITY # density
    /\ PARTICLE_DENSITY' = density
    /\ UNCHANGED <<base_count, counts>>
    /\ UNCHANGED NotDensity

get_particle_count ==
    /\ PARTICLE_DENSITY \in Densities
    /\ counts[PARTICLE_DENSITY] = None
    /\ counts' = [counts EXCEPT ![PARTICLE_DENSITY] =
                      GetParticleCount(PARTICLE_DENSITY, base_count)]
    /\ UNCHANGED <<PARTICLE_DENSITY, base_count>>
    /\ UNCHANGED NotDensity

\* ==================================================================
\* AudioCueSystem                                (advanced_manim_doc.py)
\* ==================================================================
CueTimes == 0..MaxCueTime
CueTypes == {"music", "sfx"}

\* {"time": time, "type": cue_type, "description": description}
Cue(time, cue_type, description) ==
    [time |-> time, type |-> cue_type, description |-> description]

\* self.cues.append(cue)
RECURSIVE CuesInsertByTime(_, _)
CuesInsertByTime(list, cue) ==
    IF list = <<>> THEN <<cue>>
    ELSE IF cue.time < Head(list).time THEN <<cue>> \o list
    ELSE <<Head(list)>> \o CuesInsertByTime(Tail(list), cue)
CuesAppend(list, cue) == Append(list, cue)

CuesOff ==
    /\ ENABLE_SOUND_MARKERS = FALSE
    /\ cues = <<>>
    /\ cue_calls = <<>>

\* AudioCueSystem.__init__; the flag is True as shipped and the user's to
\* set.
InitCuesInputs ==
    /\ ENABLE_SOUND_MARKERS \in BOOLEAN
    /\ cues = <<>>
    /\ cue_calls = <<>>

add_cue(time, cue_type, description) ==
    /\ Len(cue_calls) < MaxCues
    /\ cues' = IF ENABLE_SOUND_MARKERS
               THEN CuesAppend(cues, Cue(time, cue_type, description))
               ELSE cues
    /\ cue_calls' = Append(cue_calls, <<time, cue_type, description>>)
    /\ UNCHANGED ENABLE_SOUND_MARKERS
    /\ UNCHANGED NotCues

\* ==================================================================
\* AdaptiveSubtitle.display_subtitles            (advanced_manim_doc.py)
\* ==================================================================
\* Times are counted in ticks of 1/120 s: total_time is given in half
\* seconds, and a multiple of 60 ticks divides by every len(lines) up to 6
\* without remainder, so the division below is the float division.
transition_time == 60       \* transition_time: float = 0.5
hold_last == 120            \* hold_last: float = 1.0
MinDisplayTime == 240       \* the 2.0 of max(..., 2.0)
DefaultMaxWidth == 120      \* max_width: float = 12.0, in tenths

LineTexts == {<<"a">>, <<"a", Space, "b">>}
LineLists == UNION {[1..n -> LineTexts] : n \in 0..MaxLines}
TotalTimes == {h * 60 : h \in 1..(2 * MaxTotalSeconds)}

\* current_subtitle = AdaptiveSubtitle.create_subtitle(text), the i-th
\* subtitle object of the call
CurrentSubtitle(i, t) == [index |-> i, rows |-> WordWrap(t, DefaultMaxWidth)]
\* previous_subtitle = None
NoSubtitle == [index |-> 0, rows |-> <<>>]

\* time_per_subtitle = (total_time - hold_last) / len(lines)
TimePerSubtitle(total, n) == (total - hold_last) \div n
\* display_time = max(time_per_subtitle - transition_time, 2.0)
DisplayTimeWithTransition(total, n) ==
    Max(TimePerSubtitle(total, n), MinDisplayTime)
DisplayTime(total, n) ==
    Max(TimePerSubtitle(total, n) - transition_time, MinDisplayTime)

\* `if previous_subtitle`: a subtitle is a VGroup of three members, true
NeverPrevious(previous) == FALSE
HasPrevious(previous) == previous # NoSubtitle

\* scene.play(FadeOut(out), FadeIn(in), run_time=...); index 0: no such
\* animation in the play
Play(out, in, rt) == [op |-> "play", out |-> out, in |-> in, run_time |-> rt]
\* scene.wait(duration)
Wait(duration) == [op |-> "wait", out |-> 0, in |-> 0, run_time |-> duration]
\* what the scene shows once the play is over
AfterPlay(shown, play) == (shown \ {play.out}) \cup ({play.in} \ {0})

DisplayOff ==
    /\ sub_lines = <<>>
    /\ total_time = 0
    /\ sub_i = 0
    /\ previous_subtitle = NoSubtitle
    /\ on_screen = {}
    /\ ypc = "off"
    /\ plays = <<>>

\* display_subtitles is called with default transition_time and hold_last
InitDisplayInputs ==
    /\ sub_lines \in LineLists
    /\ total_time \in TotalTimes
    /\ sub_i = 0
    /\ previous_subtitle = NoSubtitle
    /\ on_screen = {}
    /\ ypc = "call"
    /\ plays = <<>>

\* lines 154-160: `if not lines: return`, else the loop is entered
DisplayEnter ==
    /\ ypc = "call"
    /\ ypc' = IF sub_lines = <<>> THEN "done" ELSE "show"
    /\ sub_i' = IF sub_lines = <<>> THEN 0 ELSE 1
    /\ previous_subtitle' = NoSubtitle
    /\ UNCHANGED <<sub_lines, total_time, on_screen, plays>>
    /\ UNCHANGED NotDisplay

\* lines 162-178: the subtitle is created and faded in, its predecessor
\* faded out in the same play
ShowSubtitle ==
    /\ ypc = "show"
    /\ LET current_subtitle == CurrentSubtitle(sub_i, sub_lines[sub_i])
           play == IF HasPrevious(previous_subtitle)
                   THEN Play(previous_subtitle.index, current_subtitle.index,
                             transition_time)
                   ELSE Play(0, current_subtitle.index,
                             (transition_time * 8) \div 10)
       IN /\ plays' = Append(plays, play)
          /\ on_screen' = AfterPlay(on_screen, play)
    /\ ypc' = "hold"
    /\ UNCHANGED <<sub_lines, total_time, sub_i, previous_subtitle>>
    /\ UNCHANGED NotDisplay

\* lines 180-182: scene.wait(display_time); previous_subtitle =
\* current_subtitle; and the loop goes on
HoldSubtitle ==
    /\ ypc = "hold"
    /\ plays' = Append(plays, Wait(DisplayTime(total_time, Len(sub_lines))))
    /\ previous_subtitle' = CurrentSubtitle(sub_i, sub_lines[sub_i])
    /\ sub_i' = sub_i + 1
    /\ ypc' = IF sub_i < Len(sub_lines) THEN "show" ELSE "fadeout"
    /\ UNCHANGED <<sub_lines, total_time, on_screen>>
    /\ UNCHANGED NotDisplay

\* lines 184-189: the last subtitle is faded out
FadeOutLast ==
    /\ ypc = "fadeout"
    /\ IF HasPrevious(previous_subtitle)
       THEN LET play == Play(previous_subtitle.index, 0, transition_time)
            IN /\ plays' = Append(plays, play)
               /\ on_screen' = AfterPlay(on_screen, play)
       ELSE UNCHANGED <<plays, on_screen>>
    /\ ypc' = "done"
    /\ UNCHANGED <<sub_lines, total_time, sub_i, previous_subtitle>>
    /\ UNCHANGED NotDisplay

\* ==================================================================
\* NeuralNetwork                                  (sciviz_templates.py)
\* ==================================================================
LayerSizeLists == UNION {[1..n -> 0..MaxLayerSize] : n \in 0..MaxLayers}
InputValues == {-1, 1}
InputLists == UNION {[1..n -> InputValues] : n \in 0..MaxInputs}

\* f"neuron_{k}"
NeuronId(k) == <<"neuron_", k>>

\* abs(val)
Abs(val) == IF val < 0 THEN -val ELSE val

\* Color based on layer (layer_idx is 0-based)
LayerColor(layer_idx, n_layers) ==
    IF layer_idx = 0 THEN "#3d5a80"
    ELSE IF layer_idx = n_layers - 1 THEN "#ee6c4d"
    ELSE "#98c1d9"

\* The loops that create the nodes, from (layer_idx, neuron_idx) on, with
\* node_counter and the nodes appended so far.
RECURSIVE NodeLoop(_, _, _, _, _)
NodeLoop(sizes, layer_idx, neuron_idx, node_counter, nodes) ==
    IF layer_idx >= Len(sizes) THEN nodes
    ELSE IF neuron_idx >= sizes[layer_idx + 1]
    THEN NodeLoop(sizes, layer_idx + 1, 0, node_counter, nodes)
    ELSE NodeLoop(sizes, layer_idx, neuron_idx + 1, node_counter + 1,
                  Append(nodes,
                         [id |-> NeuronId(node_counter),
                          color |-> LayerColor(layer_idx, Len(sizes)),
                          layer |-> layer_idx, index |-> neuron_idx]))

\* target_id = f"neuron_{node_idx + layer_size + j}"
TargetInSameLayer(node_idx, layer_size, j) == NeuronId(node_idx + j)
TargetId(node_idx, layer_size, j) == NeuronId(node_idx + layer_size + j)

\* The loops that create the connections, from (layer_idx, i, j) on, with
\* node_idx, the state s of module random and the edges appended so far.
\* weight = random.uniform(0.3, 1.0) if show_weights else 1.0, in 1/100
RECURSIVE EdgeLoop(_, _, _, _, _, _, _, _)
EdgeLoop(sizes, layer_idx, i, j, node_idx, show_weights, s, edges) ==
    IF layer_idx >= Len(sizes) - 1 THEN [edges |-> edges, rng |-> s]
    ELSE LET layer_size == sizes[layer_idx + 1]
             next_layer_size == sizes[layer_idx + 2]
         IN IF i >= layer_size
            THEN EdgeLoop(sizes, layer_idx + 1, 0, 0, node_idx + layer_size,
                          show_weights, s, edges)
            ELSE IF j >= next_layer_size
            THEN EdgeLoop(sizes, layer_idx, i + 1, 0, node_idx,
                          show_weights, s, edges)
            ELSE EdgeLoop(sizes, layer_idx, i, j + 1, node_idx, show_weights,
                          IF show_weights THEN RngStep(s) ELSE s,
                          Append(edges,
                                 [source |-> NeuronId(node_idx + i),
                                  target |-> TargetId(node_idx, layer_size, j),
                                  weight |-> IF show_weights
                                             THEN Uniform(30, 100, Draw(s))
                                             ELSE 100,
                                  directed |-> TRUE]))

\* The loop of animate_forward_pass from entry i (1-based) on; looking up a
\* neuron that is not in node_mobjects is a KeyError.
RECURSIVE ForwardLoop(_, _, _, _)
ForwardLoop(values, i, mobs, anims_) ==
    IF i > Len(values) THEN [anims |-> anims_, raised |-> FALSE]
    ELSE IF NeuronId(i - 1) \notin mobs THEN [anims |-> <<>>, raised |-> TRUE]
    ELSE ForwardLoop(values, i + 1, mobs,
                     Append(anims_, [node |-> NeuronId(i - 1),
                                     opacity |-> Abs(values[i])]))

NeuralOff ==
    /\ layer_sizes = <<>>
    /\ nn_nodes = <<>>
    /\ nn_edges = <<>>
    /\ nn_mobjects = {}
    /\ nn_anims = <<>>
    /\ npc = "off"

\* before NeuralNetwork(layer_sizes) is constructed
InitNeuralInputs ==
    /\ layer_sizes \in LayerSizeLists
    /\ nn_nodes = <<>>
    /\ nn_edges = <<>>
    /\ nn_mobjects = {}
    /\ nn_anims = <<>>
    /\ npc = "new"

\* NeuralNetwork.__init__: _generate_neural_network, then
\* NetworkTemplate.__init__ and _build_network (a Dot per node)
NeuralNetworkInit(show_weights) ==
    /\ npc = "new"
    /\ LET nodes == NodeLoop(layer_sizes, 0, 0, 0, <<>>)
           r == EdgeLoop(layer_sizes, 0, 0, 0, 0, show_weights, pyRandom, <<>>)
       IN /\ nn_nodes' = nodes
          /\ nn_edges' = r.edges
          /\ pyRandom' = r.rng
          /\ nn_mobjects' = {nodes[k].id : k \in 1..Len(nodes)}
    /\ npc' = "built"
    /\ UNCHANGED <<layer_sizes, nn_anims>>
    /\ UNCHANGED NotNeural

animate_forward_pass(input_values) ==
    /\ npc = "built"
    /\ LET r == ForwardLoop(input_values, 1, nn_mobjects, <<>>)
       IN /\ nn_anims' = r.anims
          /\ npc' = IF r.raised THEN "error" ELSE "returned"
    /\ UNCHANGED <<layer_sizes, nn_nodes, nn_edges, nn_mobjects, pyRandom>>
    /\ UNCHANGED NotNeural

\* ==================================================================
\* NetworkTemplate                                (sciviz_templates.py)
\* ==================================================================
NodeIds == {"a", "b"}
NodeLists == {<<"a">>, <<"a", "b">>}
\* NetworkEdge(source, target, directed=False)
NetworkEdge(source, target, directed) ==
    [source |-> source, target |-> target, directed |-> directed]
NetworkEdges ==
    {NetworkEdge(s, t, d) : s \in NodeIds, t \in NodeIds, d \in BOOLEAN}
EdgeLists == UNION {[1..n -> NetworkEdges] : n \in 0..MaxEdges}
Paths == UNION {[1..n -> NodeIds] : n \in 0..MaxPathLen}

\* self.node_data = {n.id: n for n in nodes}: the keys
NodeData(nodes) == {nodes[k] : k \in 1..Len(nodes)}

\* _build_network, "Create edges": an Arrow or a Line per edge, in the order
\* of edge_data; an endpoint that is no node is a KeyError
BuildRaises(node_ids, edges) ==
    \E k \in 1..Len(edges) :
        edges[k].source \notin node_ids \/ edges[k].target \notin node_ids
EdgeMobjects(edges) ==
    [k \in 1..Len(edges) |->
        [shape |-> IF edges[k].directed THEN "Arrow" ELSE "Line", edge |-> k]]

\* The inner loop of highlight_path from entry k on: the first edge whose
\* source and target are the pair's, or 0 when the loop ends without break
RECURSIVE FindEdge(_, _, _, _)
FindEdge(edges, k, source, target) ==
    IF k > Len(edges) THEN 0
    ELSE IF edges[k].source = source /\ edges[k].target = target THEN k
    ELSE FindEdge(edges, k + 1, source, target)

\* The outer loop of highlight_path from pair i (1-based) on
RECURSIVE HighlightLoop(_, _, _, _, _)
HighlightLoop(p, i, edges, mobs, anims_) ==
    IF i > Len(p) - 1 THEN anims_
    ELSE LET k == FindEdge(edges, 1, p[i], p[i + 1])
         IN HighlightLoop(p, i + 1, edges, mobs,
                          IF k = 0 THEN anims_ ELSE Append(anims_, mobs[k]))

NetworkOff ==
    /\ node_data = {}
    /\ edge_data = <<>>
    /\ edge_mobjects = <<>>
    /\ path = <<>>
    /\ path_anims = <<>>
    /\ tpc = "off"

\* before NetworkTemplate(nodes, edges) is constructed
InitNetworkInputs ==
    /\ node_data = {}
    /\ edge_data = <<>>
    /\ edge_mobjects = <<>>
    /\ path = <<>>
    /\ path_anims = <<>>
    /\ tpc = "new"

\* NetworkTemplate.__init__ and _build_network
NetworkTemplateInit(nodes, edges) ==
    /\ tpc = "new"
    /\ node_data' = NodeData(nodes)
    /\ edge_data' = edges
    /\ IF BuildRaises(NodeData(nodes), edges)
       THEN /\ tpc' = "error"
            /\ UNCHANGED edge_mobjects
       ELSE /\ tpc' = "built"
            /\ edge_mobjects' = EdgeMobjects(edges)
    /\ UNCHANGED <<path, path_anims>>
    /\ UNCHANGED NotNetwork

highlight_path(p) ==
    /\ tpc = "built"
    /\ path' = p
    /\ path_anims' = HighlightLoop(p, 1, edge_data, edge_mobjects, <<>>)
    /\ tpc' = "returned"
    /\ UNCHANGED <<node_data, edge_data, edge_mobjects>>
    /\ UNCHANGED NotNetwork

\* ==================================================================
\* Specifications
\* ==================================================================
RngOff == npRandom = 0 /\ pyRandom = 0
\* the parts of the first six groups of variables, all off
EarlierOff ==
    /\ RngOff /\ SubtitleOff /\ HyphaeOff /\ ParticlesOff /\ EduOff /\ DocOff
\* the other parts, all off
LaterOff == AudioOff /\ DensityOff /\ CuesOff /\ DisplayOff /\ NeuralOff /\ NetworkOff

InitSubtitle ==
    /\ InitSubtitleInputs /\ RngOff /\ HyphaeOff /\ ParticlesOff /\ EduOff /\ DocOff
    /\ LaterOff
NextSubtitle == create_subtitle
SpecSubtitle == InitSubtitle /\ [][NextSubtitle]_vars

InitHyphae ==
    /\ InitHyphaeInputs /\ SubtitleOff /\ ParticlesOff /\ EduOff /\ DocOff
    /\ LaterOff
NextHyphae ==
    \/ \E start \in Starts, depth \in Depths, seed \in Seeds \cup {None} :
           Construct(start, depth, seed)
    \/ OtherDraw
    \/ GenerateReturnAtOnce
    \/ GenerateSegment
    \/ BranchIteration
    \/ GenerateReturn
    \/ FinishConstruct
    \/ ScriptGoesOn
SpecHyphae == InitHyphae /\ [][NextHyphae]_vars

\* One construction, from any generator state, run to its end.  The script
\* is synchronous: a construction that has begun keeps running.
NextHyphaeOnce ==
    \/ \E start \in Starts, depth \in Depths, seed \in Seeds \cup {None} :
           Construct(start, depth, seed)
    \/ GenerateStep
FairSpecHyphaeOnce ==
    InitHyphae /\ [][NextHyphaeOnce]_vars /\ WF_vars(GenerateStep)

\* np.random may be in any state when the particle system is built
InitParticles ==
    /\ InitParticlesInputs
    /\ npRandom \in RngStates
    /\ pyRandom = 0
    /\ SubtitleOff /\ HyphaeOff /\ EduOff /\ DocOff
    /\ LaterOff
NextParticles ==
    \/ \E count \in Counts, glow \in BOOLEAN : ParticleSystemInit(count, glow)
    \/ \E rt \in RunTimes : create_flow_animation(rt)
    \/ PlayFlow
SpecParticles == InitParticles /\ [][NextParticles]_vars

InitEdu ==
    /\ InitEduInputs /\ RngOff /\ SubtitleOff /\ HyphaeOff /\ ParticlesOff /\ DocOff
    /\ LaterOff
NextEdu ==
    \/ \E id \in ObjectiveIds : add_objective(LearningObjective(id))
    \/ \E id \in ConceptIds : add_concept(Concept(id))
    \/ \E id \in PrereqIds : add_prerequisite(id)
    \/ \E name \in Names : add_slider(name, "(0, 1)", "0.5", "")
    \/ \E name \in Names, label \in Labels : add_button(name, label)
    \/ \E name \in Names, d \in ToggleDefaults : add_toggle(name, d, "")
    \/ \E t \in Timestamps : add_checkpoint(t, "Which?")
    \/ \E questions \in Quizzes, t \in Timestamps : add_quiz(questions, t)
SpecEdu == InitEdu /\ [][NextEdu]_vars

InitDoc ==
    /\ InitDocInputs /\ RngOff /\ SubtitleOff /\ HyphaeOff /\ ParticlesOff /\ EduOff
    /\ LaterOff
NextDoc ==
    \/ SceneTransition
    \/ \E left \in SUBSET SceneMobjects : RenderScene(left)
    \/ BufferWait
    \/ ClearForNext
SpecDoc == InitDoc /\ [][NextDoc]_vars

InitAudio ==
    /\ InitAudioInputs
    /\ EarlierOff
    /\ DensityOff /\ CuesOff /\ DisplayOff /\ NeuralOff /\ NetworkOff
NextAudio ==
    \/ \E scene \in AudioScenes, ok \in 0..Len(AudioSegments) :
           generate_all_audio(scene, ok)
    \/ Segment
SpecAudio == InitAudio /\ [][NextAudio]_vars

InitDensity ==
    /\ InitDensityInputs
    /\ EarlierOff
    /\ AudioOff /\ CuesOff /\ DisplayOff /\ NeuralOff /\ NetworkOff
NextDensity ==
    \/ \E density \in Densities : ConfigureDensity(density)
    \/ get_particle_count
SpecDensity == InitDensity /\ [][NextDensity]_vars

InitCues ==
    /\ InitCuesInputs
    /\ EarlierOff
    /\ AudioOff /\ DensityOff /\ DisplayOff /\ NeuralOff /\ NetworkOff
NextCues ==
    \E time \in CueTimes, cue_type \in CueTypes : add_cue(time, cue_type, "d")
SpecCues == InitCues /\ [][NextCues]_vars

InitDisplay ==
    /\ InitDisplayInputs
    /\ EarlierOff
    /\ AudioOff /\ DensityOff /\ CuesOff /\ NeuralOff /\ NetworkOff
NextDisplay ==
    \/ DisplayEnter
    \/ ShowSubtitle
    \/ HoldSubtitle
    \/ FadeOutLast
SpecDisplay == InitDisplay /\ [][NextDisplay]_vars

InitNeural ==
    /\ InitNeuralInputs
    /\ EarlierOff
    /\ AudioOff /\ DensityOff /\ CuesOff /\ DisplayOff /\ NetworkOff
NextNeural ==
    \/ \E show_weights \in BOOLEAN : NeuralNetworkInit(show_weights)
    \/ \E input_values \in InputLists : animate_forward_pass(input_values)
SpecNeural == InitNeural /\ [][NextNeural]_vars

InitNetwork ==
    /\ InitNetworkInputs
    /\ EarlierOff
    /\ AudioOff /\ DensityOff /\ CuesOff /\ DisplayOff /\ NeuralOff
NextNetwork ==
    \/ \E nodes \in NodeLists, edges \in EdgeLists :
           NetworkTemplateInit(nodes, edges)
    \/ \E p \in Paths : highlight_path(p)
SpecNetwork == InitNetwork /\ [][NextNetwork]_vars

\* ------------------------------------------------------------------
\* C1: no produced line is longer than chars_per_line = int(max_width * 8.5).
\* The claim as stated; a single word longer than the budget refutes it.
C1_NoLineOverBudget ==
    spc = "done" =>
        \A k \in 1..Len(lines) : Len(lines[k]) <= CharsPerLine(max_width)

\* C1 as amended: a produced line is within the budget unless it consists
\* of one single word (a word longer than the budget is put on a line of
\* its own, unsplit).
C1_MultiWordLinesWithinBudget ==
    spc = "done" =>
        \A k \in 1..Len(lines) :
            \/ Len(lines[k]) <= CharsPerLine(max_width)
            \/ Len(Split(lines[k])) = 1

\* a wrap that produced at least two lines, one of them of several words
C1_Witness ==
    /\ spc = "done"
    /\ Len(lines) >= 2
    /\ \E k \in 1..Len(lines) : Len(Split(lines[k])) >= 2

\* ------------------------------------------------------------------
\* Segments as a tree: `parent` is the index of the segment emitted by the
\* calling frame (0 for the root call).
Children(i) == {j \in 1..Len(segments) : segments[j].parent = i}
NonRoot == {i \in 1..Len(segments) : segments[i].parent # 0}

\* the number of segments on the chain from the root down to segment i
RECURSIVE ChainLen(_)
ChainLen(i) ==
    IF segments[i].parent = 0 THEN 1 ELSE 1 + ChainLen(segments[i].parent)

\* ------------------------------------------------------------------
\* C2: _generate_recursive terminates for every depth argument and every
\* outcome of the draws: every call made by a frame passes that frame's
\* depth - 1, a frame entered with depth <= 0 calls nothing, and every
\* construction that has begun reaches the end of __init__.
C2_DepthDecreases ==
    \A k \in 1..Len(stack) :
        /\ k > 1 => stack[k].depth = stack[k - 1].depth - 1
        /\ k < Len(stack) => stack[k].depth > 0
\* C2: the depths decrease along the call stack, and a construction that
\* has begun always ends.
C2_Terminates ==
    /\ []C2_DepthDecreases
    /\ (hpc = "running") ~> (hpc = "done")

\* a construction of full depth that forked and has ended
C2_Witness ==
    /\ hpc = "done"
    /\ hargs.depth = MaxDepth
    /\ Len(segments) > MaxDepth

\* ------------------------------------------------------------------
\* C3: every non-root segment starts where its parent segment ends, and
\* the root segment starts at the start argument.
C3_StartIsParentEnd ==
    \A i \in 1..Len(segments) :
        IF segments[i].parent = 0
        THEN segments[i].start = hargs.start
        ELSE /\ segments[i].parent < i
             /\ segments[i].start = segments[segments[i].parent].end

\* a finished structure off the origin with forks and grandchildren
C3_Witness ==
    /\ hpc = "done"
    /\ hargs.start # ORIGIN
    /\ \E i \in NonRoot : segments[i].parent \in NonRoot
    /\ \E i \in 1..Len(segments) : Cardinality(Children(i)) >= 2

\* ------------------------------------------------------------------
\* C4: in a finished structure every segment of depth > 1 has between 1
\* and 3 children, every segment of depth 1 has none, and every
\* root-to-leaf chain has exactly `depth` segments.
C4_ForkShape ==
    hpc = "done" =>
        \A i \in 1..Len(segments) :
            /\ segments[i].depth > 1 => Cardinality(Children(i)) \in 1..3
            /\ segments[i].depth = 1 => Children(i) = {}
            /\ segments[i].depth >= 1
            /\ Children(i) = {} => ChainLen(i) = hargs.depth

\* a finished structure holding a node with three children, a node with
\* two and a node of depth > 1 with one
C4_Witness ==
    /\ hpc = "done"
    /\ hargs.depth = MaxDepth
    /\ \E i \in 1..Len(segments) : Cardinality(Children(i)) = 3
    /\ \E i \in 1..Len(segments) : Cardinality(Children(i)) = 2
    /\ \E i \in 1..Len(segments) :
           segments[i].depth > 1 /\ Cardinality(Children(i)) = 1

\* ------------------------------------------------------------------
\* C5: every child segment is shorter and thinner than its parent.
\* The claim as stated; the random factor of the length refutes it.
C5_ChildShorterAndThinner ==
    \A i \in NonRoot :
        /\ segments[i].length < segments[segments[i].parent].length
        /\ segments[i].width < segments[segments[i].parent].width

\* C5 as amended: every child segment is thinner than its parent, its
\* stroke width being 0.85 times the parent's; its length is 0.8 times the
\* parent's only up to the random factors of [0.85, 1.15) both lengths
\* carry, so that a child is at most 0.8 * 1.15 / 0.85 = 92/85 times as
\* long as its parent and at least 0.8 * 0.85 / 1.15 = 68/115 times.
C5_WidthDecaysLengthWithinJitter ==
    \A i \in NonRoot :
        LET c == segments[i]
            p == segments[c.parent]
        IN /\ c.width < p.width
           /\ c.width * 20 = p.width * 17
           /\ c.length * 85 <= p.length * 92
           /\ c.length * 115 >= p.length * 68

\* a child segment that is longer than its parent
C5_Witness ==
    \E i \in NonRoot :
        segments[i].length > segments[segments[i].parent].length

\* ------------------------------------------------------------------
\* C6: a construction with depth <= 0 raises no error and is empty: no
\* segments, no submobjects, an empty growth_order.
C6_EmptyForNonPositiveDepth ==
    (hpc \in {"running", "done", "error"} /\ hargs.depth <= 0) =>
        /\ hpc # "error"
        /\ segments = <<>>
        /\ submobjects = <<>>
        /\ growth_order = <<>>

\* a finished construction with depth 0
C6_Witness ==
    /\ hpc = "done"
    /\ hargs.depth = 0

\* ------------------------------------------------------------------
\* C7: two constructions with the same seed (not None) and the same other
\* arguments produce the same sequence of segments, whatever was drawn
\* from the generators before each of them.
C7_SeededIsDeterministic ==
    (hpc = "done" /\ hargs.seed # None /\ prev.args = hargs) =>
        segments = prev.segments

\* a second construction with the seed and arguments of an earlier one,
\* of several segments
C7_Witness ==
    /\ hpc = "done"
    /\ hargs.seed # None
    /\ prev.args = hargs
    /\ Len(segments) >= 3
    /\ prev.segments # <<>>

\* ------------------------------------------------------------------
\* C8: create_flow_animation staggers the particles: the animation of
\* particle i starts (i / n) * run_time * 0.4 later than that of particle
\* 0, so a particle with a larger index starts moving strictly later.
\* The claim as stated; the code computes the delay and never uses it.
C8_Staggered ==
    ppc = "played" =>
        \A j, k \in 1..Len(animations) :
            /\ animations[j].particle = 0 =>
                   started[k] - started[j]
                       = Delay(animations[k].particle, Len(particles), run_time)
            /\ animations[j].particle < animations[k].particle =>
                   started[j] < started[k]

\* ------------------------------------------------------------------
\* C9: after any sequence of add_* calls each of the five lists holds
\* exactly the records added to it, in call order.
RECURSIVE C9_CallsOf(_, _)
C9_CallsOf(ops, k) ==
    IF k > Len(calls) THEN <<>>
    ELSE (IF calls[k].op \in ops THEN <<calls[k]>> ELSE <<>>)
             \o C9_CallsOf(ops, k + 1)
C9_KeysAdded(ops) ==
    LET cs == C9_CallsOf(ops, 1) IN [k \in 1..Len(cs) |-> cs[k].key]
C9_TypesAdded(ops) ==
    LET cs == C9_CallsOf(ops, 1)
    IN [k \in 1..Len(cs) |->
           IF cs[k].op = "add_slider" THEN "slider"
           ELSE IF cs[k].op = "add_button" THEN "button" ELSE "toggle"]
C9_Interactive == {"add_slider", "add_button", "add_toggle"}
\* C9: list by list, the records held are those of the calls made on that
\* list, in call order.
C9_ListsHoldCallsInOrder ==
    /\ [k \in 1..Len(objectives) |-> objectives[k].id]
           = C9_KeysAdded({"add_objective"})
    /\ [k \in 1..Len(concepts) |-> concepts[k].id]
           = C9_KeysAdded({"add_concept"})
    /\ prerequisites = C9_KeysAdded({"add_prerequisite"})
    /\ [k \in 1..Len(interactions) |-> interactions[k].target]
           = C9_KeysAdded(C9_Interactive)
    /\ [k \in 1..Len(interactions) |-> interactions[k].type]
           = C9_TypesAdded(C9_Interactive)
    /\ [k \in 1..Len(assessments) |->
           <<assessments[k].timestamp, assessments[k].question.text>>]
           = C9_KeysAdded({"add_checkpoint"})

\* three calls made, two of them on the same list with different records
C9_Witness ==
    /\ Len(calls) = MaxCalls
    /\ Len(interactions) >= 2
    /\ interactions[1] # interactions[2]

\* ------------------------------------------------------------------
\* C10: FullDocumentary.construct runs the eleven scenes once each in the
\* fixed order, plays a fade-through-black before every scene except the
\* first, and after each scene (and its 0.5 s wait) clears the
\* documentary's mobjects before the next scene begins.
C10_Order == << "IntroScene", "HistoryScene", "NetworkOverviewScene",
                "MiningExchangeScene", "CommunicationScene",
                "ArchitectureScene", "CompetitionScene", "EcosystemsScene",
                "ResearchMethodsScene", "ThreatsRestorationScene",
                "ConclusionScene" >>
RECURSIVE C10_Script(_)
C10_Script(k) ==
    IF k > Len(C10_Order) THEN <<>>
    ELSE (IF k > 1 THEN <<"fade_through_black">> ELSE <<>>)
             \o <<C10_Order[k], "wait", "remove">> \o C10_Script(k + 1)
\* C10: the events of a run are a prefix of the claimed script, all of it
\* once construct has ended, and the documentary's mobjects are empty
\* whenever a scene (or the transition before it) begins.
C10_LinearScript ==
    /\ Len(events) <= Len(C10_Script(1))
    /\ events = SubSeq(C10_Script(1), 1, Len(events))
    /\ dpc = "done" => events = C10_Script(1)
    /\ dpc \in {"transition", "scene", "done"} => mobjects = {}

\* the whole script has run
C10_Witness ==
    /\ dpc = "done"
    /\ Len(events) = 4 * Len(scenes) - 1

\* ------------------------------------------------------------------
\* C11: MycorrhizalDocumentary.construct completes generate_all_audio
\* before any segment starts and then runs segments 01 to 11 once each
\* in ascending order, so the file a segment requests through
\* add_voiceover is there when it is requested (and is added as sound).
C11_GeneratedBeforeRequested ==
    /\ mlog # <<>> =>
         /\ genlog # <<>>
         /\ ~genlog[Len(genlog)].raised
         /\ AllAudioPaths \subseteq files
    /\ mscene = "MycorrhizalDocumentary" =>
         /\ Len(mlog) <= Len(AudioSegments)
         /\ \A k \in 1..Len(mlog) :
              /\ mlog[k] = k
              /\ AudioPath(segment_voiceover[k]) \in genlog[Len(genlog)].after
         /\ sounds = [k \in 1..Len(mlog) |-> AudioPath(AudioSegments[k])]
C11_Witness ==
    /\ mscene = "MycorrhizalDocumentary"
    /\ mpc = "idle"
    /\ Len(mlog) = Len(AudioSegments)
    /\ Len(genlog[Len(genlog)].made) = Len(AudioSegments)

\* ------------------------------------------------------------------
\* C12: generate_all_audio synthesises exactly the files that are missing
\* when it is called and none that exists; a call right after a call that
\* completed synthesises nothing and leaves the files as they were.
RECURSIVE MissingFrom(_, _)
MissingFrom(i, fs) ==
    IF i > Len(AudioSegments) THEN <<>>
    ELSE IF AudioPath(AudioSegments[i]) \in fs THEN MissingFrom(i + 1, fs)
    ELSE <<AudioSegments[i]>> \o MissingFrom(i + 1, fs)
C12_Idempotent ==
    \A n \in 1..Len(genlog) :
        LET call == genlog[n]
            missing == MissingFrom(1, call.before)
        IN /\ Len(call.made) <= Len(missing)
           /\ call.made = SubSeq(missing, 1, Len(call.made))
           /\ call.after =
                call.before \cup {AudioPath(call.made[k]) : k \in 1..Len(call.made)}
           /\ ~call.raised => call.made = missing /\ call.after = call.before \cup AllAudioPaths
           /\ (n > 1 /\ ~genlog[n - 1].raised) =>
                  /\ call.before = genlog[n - 1].after
                  /\ call.made = <<>>
                  /\ call.after = call.before
                  /\ ~call.raised
C12_Witness ==
    /\ Len(genlog) >= 2
    /\ ~genlog[1].raised
    /\ genlog[1].before # {}
    /\ genlog[1].made # <<>>
    /\ genlog[2].made = <<>>

\* ------------------------------------------------------------------
\* C13: lowering PARTICLE_DENSITY never raises the particle count: for one
\* base_count, the count under "low" is at most the count under "medium",
\* which is at most the count under "high", which is base_count.
\* Refuted for base_count below 8: the minimum of 5 ("low") or 8
\* ("medium") particles is more than "high" returns.
C13_LoweringNeverRaises ==
    /\ counts["high"] # None => counts["high"] = base_count
    /\ (counts["low"] # None /\ counts["medium"] # None) =>
           counts["low"] <= counts["medium"]
    /\ (counts["medium"] # None /\ counts["high"] # None) =>
           counts["medium"] <= counts["high"]

\* ------------------------------------------------------------------
\* C14: after add_quiz(questions, timestamp) the scene's assessments hold
\* an entry at that timestamp for every question of the list.
\* Refuted: add_quiz has no body, the assessments stay as they were.
C14_QuizInAssessments ==
    \A n \in 1..Len(calls) :
        calls[n].op = "add_quiz" =>
            LET timestamp == calls[n].key[1]
                questions == calls[n].key[2]
            IN \A q \in 1..Len(questions) :
                   \E a \in 1..Len(assessments) :
                       /\ assessments[a].timestamp = timestamp
                       /\ assessments[a].question = questions[q]

\* ------------------------------------------------------------------
\* C15: with ENABLE_SOUND_MARKERS true every add_cue appends exactly one
\* cue (time, type, description) to the end of cues, so cues holds the
\* cues of the calls in call order, whatever their times; with the flag
\* false cues stays as it was.
C15_CuesInCallOrder ==
    IF ENABLE_SOUND_MARKERS
    THEN /\ Len(cues) = Len(cue_calls)
         /\ \A k \in 1..Len(cues) :
                /\ cues[k].time = cue_calls[k][1]
                /\ cues[k].type = cue_calls[k][2]
                /\ cues[k].description = cue_calls[k][3]
    ELSE cues = <<>>
C15_Witness ==
    /\ ENABLE_SOUND_MARKERS
    /\ Len(cue_calls) = MaxCues
    /\ Len(cues) = MaxCues
    /\ cues[1].time > cues[2].time

\* ------------------------------------------------------------------
\* C16: the durations of SCENE_DURATIONS add up to exactly 1800 seconds,
\* and every scene FullDocumentary runs finds its entry there: the
\* durations the eleven scenes read add up to 1800 as well.
RECURSIVE C16_Total(_)
C16_Total(keys) ==
    IF keys = {} THEN 0
    ELSE LET key == CHOOSE k \in keys : TRUE
         IN SCENE_DURATIONS[key] + C16_Total(keys \ {key})
C16_DurationsAddUp ==
    /\ dpc # "error"
    /\ \A k \in 1..di : scenes[k] \in DOMAIN SCENE_DURATIONS
    /\ dpc = "done" =>
         /\ scheduled = 1800
         /\ C16_Total(DOMAIN SCENE_DURATIONS) = 1800
C16_Witness ==
    /\ dpc = "done"
    /\ di = Len(scenes)
    /\ scheduled > SCENE_DURATIONS["IntroScene"]

\* ------------------------------------------------------------------
\* C17: the word wrap is greedy: for every two consecutive produced lines,
\* the earlier line with a space and the first word of the later line
\* appended is longer than chars_per_line.
C17_Greedy ==
    spc = "done" =>
        \A k \in 1..(Len(lines) - 1) :
            Len(lines[k]) + 1 + Len(Split(lines[k + 1])[1])
                > CharsPerLine(max_width)
\* a line of two words was closed and another line follows it
C17_Witness ==
    /\ spc = "done"
    /\ Len(lines) >= 2
    /\ Len(Split(lines[1])) >= 2
    /\ Len(lines[1]) < CharsPerLine(max_width)

\* ------------------------------------------------------------------
\* C18: the word wrap loses and reorders nothing: the produced lines joined
\* with single spaces are the words of text.split() joined with single
\* spaces; the words of the lines, line after line, are the words of the
\* text (no word is split across lines); no line is empty; a text without
\* words gives no line.
RECURSIVE C18_WordsOf(_)
C18_WordsOf(ls) ==
    IF ls = <<>> THEN <<>> ELSE Split(Head(ls)) \o C18_WordsOf(Tail(ls))
C18_NothingLost ==
    spc = "done" =>
        /\ Join(lines) = Join(Split(text))
        /\ C18_WordsOf(lines) = Split(text)
        /\ \A k \in 1..Len(lines) : lines[k] # <<>>
        /\ Split(text) = <<>> => lines = <<>>
\* several lines from a text that is not its own words joined by spaces
C18_Witness ==
    /\ spc = "done"
    /\ Len(lines) >= 2
    /\ text # Join(Split(text))
    /\ \E k \in 1..Len(lines) : Len(lines[k]) > CharsPerLine(max_width)

\* ------------------------------------------------------------------
\* C19: display_subtitles shows the n lines one at a time in list order:
\* the first is faded in alone, each later one is faded in while its
\* predecessor is faded out, each is held once after it appears, and the
\* last is faded out before the call returns.  No subtitle is shown
\* afterwards, at most one is shown between plays, and for n = 0 the call
\* plays and waits nothing.
C19_Kind(e) == <<e.op, e.out, e.in>>
RECURSIVE C19_Script(_, _)
C19_Script(i, n) ==
    IF i > n THEN IF n = 0 THEN <<>> ELSE << <<"play", n, 0>> >>
    ELSE << <<"play", i - 1, i>>, <<"wait", 0, 0>> >> \o C19_Script(i + 1, n)
C19_OneAtATime ==
    LET script == C19_Script(1, Len(sub_lines)) IN
    /\ Len(plays) <= Len(script)
    /\ \A k \in 1..Len(plays) : C19_Kind(plays[k]) = script[k]
    /\ Cardinality(on_screen) <= 1
    /\ ypc = "hold" => on_screen = {sub_i}
    /\ ypc = "done" =>
         /\ Len(plays) = Len(script)
         /\ on_screen = {}
C19_Witness ==
    /\ ypc = "done"
    /\ Len(sub_lines) = MaxLines
    /\ Len(plays) = 2 * MaxLines + 1

\* ------------------------------------------------------------------
\* C20: the run times of all plays and waits of a call with a non-empty
\* list of lines add up to no more than total_time.
\* The claim as stated; the minimum display time of 2.0 s refutes it for
\* a total_time below 2.5 s per line plus 0.4 s.
RECURSIVE C20_Spent(_)
C20_Spent(log) ==
    IF log = <<>> THEN 0 ELSE Head(log).run_time + C20_Spent(Tail(log))
C20_WithinBudget ==
    (ypc = "done" /\ sub_lines # <<>>) => C20_Spent(plays) <= total_time

\* C20 as amended: the sum is within total_time exactly when total_time is
\* at least len(lines) * (2.0 + transition_time) + 0.8 * transition_time;
\* it is total_time - hold_last + 0.8 * transition_time when no display
\* time is raised to the minimum of 2.0 s.
C20_NeededTime == Len(sub_lines) * (MinDisplayTime + transition_time)
                      + (transition_time * 8) \div 10
C20_WithinBudgetWhenLongEnough ==
    (ypc = "done" /\ sub_lines # <<>>) =>
        /\ C20_Spent(plays) <= total_time <=> total_time >= C20_NeededTime
        /\ total_time >= C20_NeededTime + transition_time =>
               C20_Spent(plays)
                   = total_time - hold_last + (transition_time * 8) \div 10
        /\ total_time < C20_NeededTime => C20_Spent(plays) = C20_NeededTime
C20_Witness ==
    /\ ypc = "done"
    /\ Len(sub_lines) >= 2
    /\ total_time >= C20_NeededTime + transition_time
    /\ C20_Spent(plays) < total_time

\* ------------------------------------------------------------------
\* C21: the network generated for layer_sizes has sum(layer_sizes) neurons
\* with pairwise distinct ids, layer k holding layer_sizes[k] of them, and
\* exactly one directed edge from every neuron of a layer to every neuron
\* of the next layer, and no other edge.
RECURSIVE C21_Sum(_)
C21_Sum(sizes) == IF sizes = <<>> THEN 0 ELSE Head(sizes) + C21_Sum(Tail(sizes))
C21_EdgesFromTo(a, b) ==
    {e \in 1..Len(nn_edges) :
        nn_edges[e].source = nn_nodes[a].id /\ nn_edges[e].target = nn_nodes[b].id}
C21_FullyConnectedLayers ==
    npc # "new" =>
        /\ Len(nn_nodes) = C21_Sum(layer_sizes)
        /\ \A a, b \in 1..Len(nn_nodes) :
               /\ nn_nodes[a].id = nn_nodes[b].id => a = b
               /\ Cardinality(C21_EdgesFromTo(a, b)) =
                      IF nn_nodes[b].layer = nn_nodes[a].layer + 1 THEN 1 ELSE 0
        /\ \A k \in 1..Len(layer_sizes) :
               Cardinality({a \in 1..Len(nn_nodes) : nn_nodes[a].layer = k - 1})
                   = layer_sizes[k]
        /\ \A e \in 1..Len(nn_edges) :
               /\ nn_edges[e].directed
               /\ nn_edges[e].source \in nn_mobjects
               /\ nn_edges[e].target \in nn_mobjects
C21_Witness ==
    /\ npc = "built"
    /\ Len(layer_sizes) = MaxLayers
    /\ \A k \in 1..Len(layer_sizes) : layer_sizes[k] >= 2
    /\ Len(nn_edges) >= 8

\* ------------------------------------------------------------------
\* C22: every animation animate_forward_pass returns targets a neuron of
\* the input layer (layer 0).
\* Refuted: with more input values than input neurons the neurons of the
\* next layers are activated too.
C22_OnlyInputLayer ==
    npc = "returned" =>
        \A k \in 1..Len(nn_anims) :
            \A a \in 1..Len(nn_nodes) :
                nn_nodes[a].id = nn_anims[k].node => nn_nodes[a].layer = 0

\* ------------------------------------------------------------------
\* C23: highlight_path returns, in path order, one highlight for every
\* consecutive pair of nodes of the path that an edge of the network
\* joins; an undirected edge joins its endpoints in either order.
\* Refuted: an undirected edge stored as (a, b) is not found for the pair
\* (b, a), and that part of the path is not highlighted.
C23_Joins(e, source, target) ==
    \/ e.source = source /\ e.target = target
    \/ ~e.directed /\ e.source = target /\ e.target = source
RECURSIVE C23_JoinedPairs(_)
C23_JoinedPairs(i) ==
    IF i > Len(path) - 1 THEN <<>>
    ELSE (IF \E k \in 1..Len(edge_data) :
                 C23_Joins(edge_data[k], path[i], path[i + 1])
          THEN << <<path[i], path[i + 1]>> >> ELSE <<>>)
         \o C23_JoinedPairs(i + 1)
C23_WholePathHighlighted ==
    tpc = "returned" =>
        LET pairs == C23_JoinedPairs(1) IN
        /\ Len(path_anims) = Len(pairs)
        /\ \A k \in 1..Len(path_anims) :
               C23_Joins(edge_data[path_anims[k].edge], pairs[k][1], pairs[k][2])

====
